---------------------------- MODULE Spec2Model ----------------------------
(***************************************************************************)
(* The quotation engine of the ATEC medical search tool: text              *)
(* normalisation, thesaurus lookup, edit distance, relevance scoring and   *)
(* ranking (src/App.tsx, top level), the item extractor's local fallback   *)
(* (src/services/geminiService.ts) and the App component's state with its  *)
(* handlers (handleSearch, handleQuantityChange, onToggleSelect, the       *)
(* supplier filter, the derived grand total and status cells).  The        *)
(* catalog loader and the item extractor are modelled by their outcomes.   *)
(* The levenshtein and calculateMatchScore of the earlier App              *)
(* (src/unnamed/part_001) are modelled next to the current ones.           *)
(* Spec is the App; SpecNormalizeText, SpecLevenshtein and SpecStrictScore *)
(* exercise normalizeText, levenshtein and the earlier scorer on their     *)
(* own arguments.                                                          *)
(*                                                                         *)
(* Strings are TLA+ strings; a character is a string of length 1.          *)
(* Scores are integers: a match quality q in [0,1] is kept in tenths       *)
(* (10, 9, 8, 6), every token weight is a multiple of 10, so               *)
(* quality * weight is exact.  Prices are integers (cents).                *)
(***************************************************************************)
EXTENDS Integers, Sequences, FiniteSets, TLC

(***************************************************************************)
(* Bounds of the model (not program constants).                            *)
(***************************************************************************)
\* largest quantity typed into a quantity input
MaxQty == 2
\* number of catalog rows beyond the top-K cut in the large catalog
ExtraRows == 1
\* longest text given to normalizeText on its own
MaxTextLen == 3
\* longest token given to levenshtein on its own
MaxTokenLen == 3
\* longest catalog ranked by a scorer on its own
MaxCatalogLen == 2

(***************************************************************************)
(* String helpers (JavaScript String.prototype methods).                   *)
(***************************************************************************)
Char(s, i) == SubSeq(s, i, i)

\* s.includes(sub)
Includes(s, sub) ==
  \E i \in 1..(Len(s) - Len(sub) + 1) : SubSeq(s, i, i + Len(sub) - 1) = sub

\* p.startsWith(q)
StartsWith(p, q) == Len(q) <= Len(p) /\ SubSeq(p, 1, Len(q)) = q

RECURSIVE SplitFrom(_, _, _, _)
\* s.split(sep) for a separator set: pieces between separator characters
SplitFrom(s, seps, i, cur) ==
  IF i > Len(s) THEN <<cur>>
  ELSE IF Char(s, i) \in seps
       THEN <<cur>> \o SplitFrom(s, seps, i + 1, "")
       ELSE SplitFrom(s, seps, i + 1, cur \o Char(s, i))

\* s.split(" ")
SplitSpace(s) == SplitFrom(s, {" "}, 1, "")

\* arr.filter(t => t.length > 0)
NonEmpty(seq) == SelectSeq(seq, LAMBDA t : Len(t) > 0)

\* arr.includes(x) / arr.some(y => y === x)
InSeq(seq, x) == \E i \in 1..Len(seq) : seq[i] = x

Max2(x, y) == IF x >= y THEN x ELSE y
Min2(x, y) == IF x <= y THEN x ELSE y
(***************************************************************************)
(* normalizeText (src/App.tsx:60-67), character by character.              *)
(* The modelled alphabet: a-z, 0-9, A-Z, the accented letters of           *)
(* Portuguese in both cases, their combining marks, and every other        *)
(* character (punctuation, blanks, line breaks), which is neither          *)
(* lower-cased nor decomposed.                                             *)
(***************************************************************************)
LowerAlnum ==
  {"a","b","c","d","e","f","g","h","i","j","k","l","m","n","o","p","q","r",
   "s","t","u","v","w","x","y","z","0","1","2","3","4","5","6","7","8","9"}

Digits == {"0","1","2","3","4","5","6","7","8","9"}
\* String.prototype.toLowerCase on the modelled alphabet
LowerTable ==
  ("A" :> "a") @@ ("B" :> "b") @@ ("C" :> "c") @@ ("D" :> "d") @@ ("E" :> "e") @@ ("F" :> "f") @@
  ("G" :> "g") @@ ("H" :> "h") @@ ("I" :> "i") @@ ("J" :> "j") @@ ("K" :> "k") @@ ("L" :> "l") @@
  ("M" :> "m") @@ ("N" :> "n") @@ ("O" :> "o") @@ ("P" :> "p") @@ ("Q" :> "q") @@ ("R" :> "r") @@
  ("S" :> "s") @@ ("T" :> "t") @@ ("U" :> "u") @@ ("V" :> "v") @@ ("W" :> "w") @@ ("X" :> "x") @@
  ("Y" :> "y") @@ ("Z" :> "z") @@ ("Ç" :> "ç") @@ ("Ã" :> "ã") @@ ("Â" :> "â") @@ ("Á" :> "á") @@
  ("É" :> "é") @@ ("Ê" :> "ê") @@ ("Í" :> "í") @@ ("Ó" :> "ó") @@ ("Õ" :> "õ") @@ ("Ô" :> "ô") @@
  ("Ú" :> "ú")

ToLowerChar(c) == IF c \in DOMAIN LowerTable THEN LowerTable[c] ELSE c
\* String.prototype.normalize("NFD"): base letter followed by its combining mark
NFDTable ==
  ("ç" :> "c¸") @@ ("ã" :> "a¬") @@ ("â" :> "a¤") @@ ("á" :> "a´") @@
  ("é" :> "e´") @@ ("ê" :> "e¤") @@ ("í" :> "i´") @@ ("ó" :> "o´") @@
  ("õ" :> "o¬") @@ ("ô" :> "o¤") @@ ("ú" :> "u´")

NFDChar(c) == IF c \in DOMAIN NFDTable THEN NFDTable[c] ELSE c

\* the combining diacritical marks [\u0300-\u036f] that occur in NFDTable.
\* The module's character set is Latin-1, so each mark is written with a
\* stand-in character that is used for nothing else: U+0301 (acute) as the
\* character B4, U+0302 (circumflex) as A4, U+0303 (tilde) as AC, U+0327
\* (cedilla) as B8.
CombiningMarks == {"¤", "¬", "´", "¸"}

\* .replace(/[\u0300-\u036f]/g, "")
StripMarkChar(c) == IF c \in CombiningMarks THEN "" ELSE c

\* .replace(/[^a-z0-9]/g, " ")
NonAlnumToSpaceChar(c) == IF c \in LowerAlnum THEN c ELSE " "

\* one character of one pass of normalizeText's method chain
PassChar(pass, c) ==
  CASE pass = "toLowerCase" -> ToLowerChar(c)
    [] pass = "NFD"         -> NFDChar(c)
    [] pass = "stripMarks"  -> StripMarkChar(c)
    [] pass = "nonAlnum"    -> NonAlnumToSpaceChar(c)

RECURSIVE MapChars(_, _, _)
\* a pass applied to every character of s, from position i on
MapChars(s, i, pass) ==
  IF i > Len(s) THEN "" ELSE PassChar(pass, Char(s, i)) \o MapChars(s, i + 1, pass)

RECURSIVE CollapseFrom(_, _, _)
\* .replace(/\s+/g, " "): a run of blanks becomes one blank
CollapseFrom(s, i, prevBlank) ==
  IF i > Len(s) THEN ""
  ELSE IF Char(s, i) = " "
       THEN (IF prevBlank THEN "" ELSE " ") \o CollapseFrom(s, i + 1, TRUE)
       ELSE Char(s, i) \o CollapseFrom(s, i + 1, FALSE)

RECURSIVE TrimLeft(_)
TrimLeft(s) ==
  IF Len(s) > 0 /\ Char(s, 1) \in {" ", "\n", "\t"} THEN TrimLeft(Tail(s)) ELSE s

RECURSIVE TrimRight(_)
TrimRight(s) ==
  IF Len(s) > 0 /\ Char(s, Len(s)) \in {" ", "\n", "\t"}
  THEN TrimRight(SubSeq(s, 1, Len(s) - 1)) ELSE s

\* String.prototype.trim
Trim(s) == TrimRight(TrimLeft(s))

\* a variant of normalizeText without the final trim
normalizeTextUntrimmed(text) ==
  LET lowered   == MapChars(text, 1, "toLowerCase")
      decomposed == MapChars(lowered, 1, "NFD")
      stripped  == MapChars(decomposed, 1, "stripMarks")
      spaced    == MapChars(stripped, 1, "nonAlnum")
  IN  CollapseFrom(spaced, 1, FALSE)

normalizeText(text) ==
  LET lowered   == MapChars(text, 1, "toLowerCase")
      decomposed == MapChars(lowered, 1, "NFD")
      stripped  == MapChars(decomposed, 1, "stripMarks")
      spaced    == MapChars(stripped, 1, "nonAlnum")
      collapsed == CollapseFrom(spaced, 1, FALSE)
  IN  Trim(collapsed)

(***************************************************************************)
(* Static tables (src/App.tsx:9-58).                                       *)
(***************************************************************************)
medicalThesaurus ==
  ("afastador" :> {"afastador", "afast", "retractor", "afast."}) @@
  ("pinca" :> {"pinca", "pinça", "forceps", "clamp", "pinca.", "pinça."}) @@
  ("tesoura" :> {"tesoura", "tes", "scissors", "tes."}) @@
  ("porta" :> {"porta", "needle", "holder", "porta-agulha"}) @@
  ("cabo" :> {"cabo", "handle"}) @@
  ("fio" :> {"fio", "suture", "wire"}) @@
  ("volkmann" :> {"volkmann", "volkman", "wulkman", "vulkman", "vulkmann", "wolkman", "wolkmann"}) @@
  ("kocher" :> {"kocher", "kocker", "cocher", "cocker", "kocher."}) @@
  ("senn" :> {"senn", "sen", "semm", "sem"}) @@
  ("mueller" :> {"mueller", "muller", "mulir", "muler"}) @@
  ("metzenbaum" :> {"metzenbaum", "metz", "metzebaum"}) @@
  ("mayo" :> {"mayo", "maio"}) @@
  ("kelly" :> {"kelly", "kely", "keli"}) @@
  ("clipe" :> {"clipe", "clips", "clip"}) @@
  ("gancho" :> {"gancho", "ganchos", "garra", "garras", "dente", "dentes"}) @@
  ("mosquito" :> {"mosquito", "halstead", "halsted"}) @@
  ("bisturi" :> {"bisturi", "scalpel", "lâmina", "lamina"}) @@
  ("adson" :> {"adson", "adsson"}) @@
  ("allis" :> {"allis", "alis"}) @@
  ("babcock" :> {"babcock", "babcok"}) @@
  ("backhaus" :> {"backhaus", "backaus"}) @@
  ("gelpi" :> {"gelpi", "gelpy", "golpi"}) @@
  ("weitlaner" :> {"weitlaner", "westphal"}) @@
  ("mixter" :> {"mixter", "mixture"}) @@
  ("crile" :> {"crile", "crille"}) @@
  ("rochester" :> {"rochester"}) @@
  ("pean" :> {"pean"}) @@
  ("guthrie" :> {"guthrie", "gunthrie", "gutrie"}) @@
  ("cizalha" :> {"cizalha", "cisalha", "alicate"}) @@
  ("liston" :> {"liston", "listom"}) @@
  ("farabeuf" :> {"farabeuf", "farabef", "farabauf"}) @@
  ("yankauer" :> {"yankauer", "yankau", "yancauer"}) @@
  ("hartmann" :> {"hartmann", "hartman"}) @@
  ("bunt" :> {"bunt", "bunti"}) @@
  ("hegar" :> {"hegar", "hegger"})

STOP_WORDS ==
  {"de", "do", "da", "com", "para", "em", "cm", "mm", "ml", "unid", "cx", "pc",
   "pç", "jogo", "kit", "conjunto"}

CATEGORY_TERMS ==
  {"afastador", "pinca", "pinça", "tesoura", "porta", "cabo", "fio", "lamina",
   "lâmina", "bisturi", "agulha", "clip", "clipe", "clips", "broca", "raspador",
   "elevador", "descolador", "valva", "especulo", "espéculo", "aspirador",
   "canula", "cânula", "cesta", "caixa", "cizalha", "gancho", "garra", "dente",
   "sonda", "cateter", "drill", "perfurador"}

\* medicalThesaurus[token] || [token]
SynonymsOf(token) ==
  IF token \in DOMAIN medicalThesaurus THEN medicalThesaurus[token] ELSE {token}

(***************************************************************************)
(* levenshtein (src/App.tsx:70-99): the matrix is filled row by row; a     *)
(* row is the sequence of its cells for j = 0..a.length.                   *)
(***************************************************************************)
RECURSIVE LevCells(_, _, _, _, _)
\* the inner loop over j: cur holds matrix[i][0..j-1], so j = Len(cur);
\* prev holds matrix[i-1]
LevCells(a, b, i, prev, cur) ==
  IF Len(cur) > Len(a) THEN cur
  ELSE LET j == Len(cur)
           cell == IF Char(b, i) = Char(a, j)
                   THEN prev[j]
                   ELSE Min2(prev[j] + 1, Min2(cur[j] + 1, prev[j + 1] + 1))
       IN  LevCells(a, b, i, prev, Append(cur, cell))

RECURSIVE LevRows(_, _, _)
\* the outer loop over i: prev is matrix[i-1], whose first cell is i-1;
\* returns matrix[b.length]
LevRows(a, b, prev) ==
  IF prev[1] + 1 > Len(b) THEN prev
  ELSE LevRows(a, b, LevCells(a, b, prev[1] + 1, prev, <<prev[1] + 1>>))

\* a variant of levenshtein that returns the cell one column short of the
\* last, matrix[b.length][a.length - 1]
levenshteinColumnShort(a, b) ==
  IF Len(a) = 0 THEN Len(b)
  ELSE IF Len(b) = 0 THEN Len(a)
  ELSE LevRows(a, b, [j \in 1..(Len(a) + 1) |-> j - 1])[Len(a)]

levenshtein(a, b) ==
  IF Len(a) = 0 THEN Len(b)
  ELSE IF Len(b) = 0 THEN Len(a)
  ELSE LevRows(a, b, [j \in 1..(Len(a) + 1) |-> j - 1])[Len(a) + 1]

(***************************************************************************)
(* levenshtein of the earlier App (src/unnamed/part_001:32-46): rows over  *)
(* a, columns over b, every cell the least of up + 1, left + 1 and         *)
(* diagonal + (0 or 1).  prev is row i - 1 (prev[1] = i - 1), cur the      *)
(* cells of row i computed so far.                                         *)
(***************************************************************************)
RECURSIVE TmpCells(_, _, _, _, _)
TmpCells(a, b, i, prev, cur) ==
  IF Len(cur) > Len(b) THEN cur
  ELSE LET j == Len(cur)
           cell == Min2(prev[j + 1] + 1,
                        Min2(cur[j] + 1,
                             prev[j] + (IF Char(a, i) = Char(b, j) THEN 0 ELSE 1)))
       IN  TmpCells(a, b, i, prev, Append(cur, cell))

RECURSIVE TmpRows(_, _, _)
TmpRows(a, b, prev) ==
  IF prev[1] + 1 > Len(a) THEN prev
  ELSE TmpRows(a, b, TmpCells(a, b, prev[1] + 1, prev, <<prev[1] + 1>>))

\* a variant of levenshteinPart001 whose first row is all 0, without
\* tmp[0][j] = j
levenshteinPart001BlankRow(a, b) ==
  TmpRows(a, b, [j \in 1..(Len(b) + 1) |-> 0])[Len(b) + 1]

levenshteinPart001(a, b) ==
  TmpRows(a, b, [j \in 1..(Len(b) + 1) |-> j - 1])[Len(b) + 1]

(***************************************************************************)
(* calculateMatchScore (src/App.tsx:101-198).                              *)
(***************************************************************************)
AllIn(s, chars) == \A i \in 1..Len(s) : Char(s, i) \in chars

\* !isNaN(Number(token)) for a non-empty token over [a-z0-9]: a decimal
\* literal (digits, optionally with an exponent) or a 0x / 0o / 0b literal
IsNumber(token) ==
  \/ AllIn(token, Digits)
  \/ \E k \in 2..(Len(token) - 1) :
        /\ Char(token, k) = "e"
        /\ AllIn(SubSeq(token, 1, k - 1), Digits)
        /\ AllIn(SubSeq(token, k + 1, Len(token)), Digits)
  \/ /\ Len(token) > 2
     /\ \/ /\ SubSeq(token, 1, 2) = "0x"
           /\ AllIn(SubSeq(token, 3, Len(token)),
                    Digits \cup {"a", "b", "c", "d", "e", "f"})
        \/ /\ SubSeq(token, 1, 2) = "0o"
           /\ AllIn(SubSeq(token, 3, Len(token)),
                    {"0", "1", "2", "3", "4", "5", "6", "7"})
        \/ /\ SubSeq(token, 1, 2) = "0b"
           /\ AllIn(SubSeq(token, 3, Len(token)), {"0", "1"})

\* step 1: does a query token leave the "perfect match" intact?
ImportantTokenPresent(qToken, normalizedTitle) ==
  \/ qToken \in STOP_WORDS
  \/ Len(qToken) < 3 /\ IsNumber(qToken)
  \/ \E syn \in SynonymsOf(qToken) : Includes(normalizedTitle, syn)

\* a variant of AllImportantTokensPresent that also asks for the stop words
\* and the short numbers
AllTokensPresent(queryTokens, normalizedTitle) ==
  \A i \in 1..Len(queryTokens) :
     \E syn \in SynonymsOf(queryTokens[i]) : Includes(normalizedTitle, syn)

AllImportantTokensPresent(queryTokens, normalizedTitle) ==
  \A i \in 1..Len(queryTokens) :
     ImportantTokenPresent(queryTokens[i], normalizedTitle)

\* step 2: the weight class of a query token
TokenWeight(qToken) ==
  IF qToken \in STOP_WORDS THEN 50
  ELSE IF qToken \in CATEGORY_TERMS THEN 2500
  ELSE IF IsNumber(qToken) THEN 500
  ELSE 4500

\* a variant of TokenQuality whose prefix and fuzzy matches ignore the
\* token's length
TokenQualityAnyLength(qToken, pToken) ==
  LET tokenWeight == TokenWeight(qToken)
  IN  IF pToken \in SynonymsOf(qToken) THEN 10
      ELSE IF tokenWeight > 1000 /\ StartsWith(pToken, qToken)
           THEN 9
      ELSE IF tokenWeight > 100
           THEN LET dist == levenshtein(qToken, pToken)
                    threshold == IF Len(qToken) > 6 THEN 2 ELSE 1
                IN  IF dist <= threshold THEN 10 - dist * 2 ELSE 0
      ELSE 0

\* the body of the loop over product tokens: the quality (in tenths) that
\* one product token gives a query token, 0 when none of A, B, C applies
TokenQuality(qToken, pToken) ==
  LET tokenWeight == TokenWeight(qToken)
  IN  IF pToken \in SynonymsOf(qToken) THEN 10
      ELSE IF tokenWeight > 1000 /\ Len(qToken) > 3 /\ StartsWith(pToken, qToken)
           THEN 9
      ELSE IF tokenWeight > 100 /\ Len(qToken) > 3
           THEN LET dist == levenshtein(qToken, pToken)
                    threshold == IF Len(qToken) > 6 THEN 2 ELSE 1
                IN  IF dist <= threshold THEN 10 - dist * 2 ELSE 0
      ELSE 0

RECURSIVE BestTokenScoreFrom(_, _, _, _)
BestTokenScoreFrom(qToken, productTokens, i, best) ==
  IF i > Len(productTokens) THEN best
  ELSE BestTokenScoreFrom(qToken, productTokens, i + 1,
                          Max2(best, TokenQuality(qToken, productTokens[i])))

\* bestTokenScore after the loop over product tokens, in tenths
BestTokenScore(qToken, productTokens) ==
  BestTokenScoreFrom(qToken, productTokens, 1, 0)

RECURSIVE TokenScoreSum(_, _, _)
\* queryTokens.forEach: the sum of bestTokenScore * tokenWeight
TokenScoreSum(queryTokens, productTokens, i) ==
  IF i > Len(queryTokens) THEN 0
  ELSE (BestTokenScore(queryTokens[i], productTokens) * TokenWeight(queryTokens[i])) \div 10
       + TokenScoreSum(queryTokens, productTokens, i + 1)

\* productTokens.findIndex(p => anchorSynonyms.includes(p)), 0-based, -1 if none
AnchorIndex(anchorSynonyms, productTokens) ==
  IF \E i \in 1..Len(productTokens) : productTokens[i] \in anchorSynonyms
  THEN (CHOOSE i \in 1..Len(productTokens) :
          /\ productTokens[i] \in anchorSynonyms
          /\ \A k \in 1..(i - 1) : productTokens[k] \notin anchorSynonyms) - 1
  ELSE -1

\* step 3
AnchorBonus(anchorSynonyms, productTokens) ==
  LET anchorIndex == AnchorIndex(anchorSynonyms, productTokens)
  IN  IF anchorIndex = 0 THEN 2000 ELSE IF anchorIndex > 0 THEN 1000 ELSE 0

\* a variant of AccessoryPenalty that does not look at the query
AccessoryPenaltyAlways(anchorSynonyms, productTokens) ==
  LET productIsAccessory == InSeq(productTokens, "cabo") \/ InSeq(productTokens, "suporte")
  IN  IF productIsAccessory THEN 3000 ELSE 0

\* step 4
AccessoryPenalty(anchorSynonyms, productTokens) ==
  LET isCaboQuery == "cabo" \in anchorSynonyms \/ "suporte" \in anchorSynonyms
      productIsAccessory == InSeq(productTokens, "cabo") \/ InSeq(productTokens, "suporte")
  IN  IF productIsAccessory /\ ~isCaboQuery THEN 3000 ELSE 0

calculateMatchScore(product, query) ==
  LET normalizedQuery == normalizeText(query)
      normalizedTitle == normalizeText(product.title)
      queryTokens     == NonEmpty(SplitSpace(normalizedQuery))
      productTokens   == SplitSpace(normalizedTitle)
  IN  IF Len(queryTokens) = 0 THEN 0
      ELSE LET anchorSynonyms == SynonymsOf(queryTokens[1])
           IN  (IF AllImportantTokensPresent(queryTokens, normalizedTitle) THEN 6000 ELSE 0)
               + TokenScoreSum(queryTokens, productTokens, 1)
               + AnchorBonus(anchorSynonyms, productTokens)
               - AccessoryPenalty(anchorSynonyms, productTokens)

(***************************************************************************)
(* The ranking step of handleSearch (src/App.tsx:244-248).                 *)
(***************************************************************************)
\* .slice(0, 15)
MaxMatches == 15

\* .map(p => ({ ...p, matchScore: calculateMatchScore(p, item.name) }))
WithScores(products, name) ==
  [i \in 1..Len(products) |->
     [id         |-> products[i].id,
      title      |-> products[i].title,
      supplier   |-> products[i].supplier,
      price      |-> products[i].price,
      matchScore |-> calculateMatchScore(products[i], name)]]

\* .filter(p => (p.matchScore || 0) > 0)
PositiveScores(scored) == SelectSeq(scored, LAMBDA p : p.matchScore > 0)

RECURSIVE InsertByScoreUnstable(_, _)
\* a variant of InsertByScore that puts p before the elements of equal score
InsertByScoreUnstable(sorted, p) ==
  IF Len(sorted) = 0 THEN <<p>>
  ELSE IF Head(sorted).matchScore > p.matchScore
       THEN <<Head(sorted)>> \o InsertByScoreUnstable(Tail(sorted), p)
       ELSE <<p>> \o sorted

RECURSIVE InsertByScore(_, _)
\* p goes behind every element whose score is not smaller than its own
InsertByScore(sorted, p) ==
  IF Len(sorted) = 0 THEN <<p>>
  ELSE IF Head(sorted).matchScore >= p.matchScore
       THEN <<Head(sorted)>> \o InsertByScore(Tail(sorted), p)
       ELSE <<p>> \o sorted

RECURSIVE SortByScoreFrom(_, _, _)
SortByScoreFrom(seq, i, sorted) ==
  IF i > Len(seq) THEN sorted
  ELSE SortByScoreFrom(seq, i + 1, InsertByScore(sorted, seq[i]))

\* .sort((a, b) => (b.matchScore || 0) - (a.matchScore || 0)): Array.prototype.sort
\* is stable, elements the comparator calls equal keep their order
SortByScore(seq) == SortByScoreFrom(seq, 1, <<>>)

\* a variant of Slice that keeps one element more
SliceOneMore(seq, n) == SubSeq(seq, 1, Min2(n + 1, Len(seq)))

\* .slice(0, n)
Slice(seq, n) == SubSeq(seq, 1, Min2(n, Len(seq)))

Matches(products, name) ==
  Slice(SortByScore(PositiveScores(WithScores(products, name))), MaxMatches)

(***************************************************************************)
(* The scorer and the ranking of the earlier App (src/unnamed/part_001),   *)
(* the stricter policy: a query of several words is rejected by a title    *)
(* without its anchor.                                                     *)
(***************************************************************************)
medicalThesaurusPart001 ==
  ("afastador" :> {"afastador", "afast", "retractor"}) @@
  ("pinca" :> {"pinca", "pinça", "forceps", "clamp"}) @@
  ("tesoura" :> {"tesoura", "tes", "scissors"}) @@
  ("porta" :> {"porta", "needle", "holder"}) @@
  ("cabo" :> {"cabo", "handle"}) @@
  ("volkmann" :> {"volkmann", "volkman", "wulkman", "vulkman", "vulkmann"}) @@
  ("senn" :> {"senn", "sen", "semm", "sem"}) @@
  ("mueller" :> {"mueller", "muller", "mulir", "muler"}) @@
  ("metzenbaum" :> {"metzenbaum", "metz", "metzebaum"}) @@
  ("mayo" :> {"mayo", "maio"}) @@
  ("kelly" :> {"kelly", "kely"}) @@
  ("clipe" :> {"clipe", "clips", "clip"}) @@
  ("clips" :> {"clips", "clipe", "clip"})

\* medicalThesaurus[token] || [token]
SynonymsOfPart001(token) ==
  IF token \in DOMAIN medicalThesaurusPart001 THEN medicalThesaurusPart001[token]
  ELSE {token}

ContainsAllTokens(queryTokens, productTitle) ==
  \A i \in 1..Len(queryTokens) :
     \E syn \in SynonymsOfPart001(queryTokens[i]) : Includes(productTitle, syn)

ProductStartsWithAnchor(anchorSynonyms, productWords) ==
  \E syn \in anchorSynonyms : productWords[1] = syn \/ StartsWith(productWords[1], syn)

ProductContainsAnchor(anchorSynonyms, productWords) ==
  \E syn \in anchorSynonyms : InSeq(productWords, syn)

\* a variant of RejectedByAnchor that rejects nothing
RejectedByAnchorNever(queryTokens, anchorSynonyms, productWords) == FALSE

\* the final else of the anchor step: if (queryTokens.length > 1) return -1
RejectedByAnchor(queryTokens, anchorSynonyms, productWords) ==
  /\ ~ProductStartsWithAnchor(anchorSynonyms, productWords)
  /\ ~ProductContainsAnchor(anchorSynonyms, productWords)
  /\ Len(queryTokens) > 1

AnchorScore(anchorSynonyms, productWords) ==
  IF ProductStartsWithAnchor(anchorSynonyms, productWords) THEN 5000
  ELSE IF ProductContainsAnchor(anchorSynonyms, productWords) THEN 1000
  ELSE 0

accessoryKeywords == {"cabo", "capa", "suporte", "p/", "para"}

AccessoryMismatch(anchorSynonyms, productWords) ==
  LET isCaboSearch == "cabo" \in anchorSynonyms
      isProductAccessory == \E i \in 1..Len(productWords) : productWords[i] \in accessoryKeywords
  IN  IF isProductAccessory /\ ~isCaboSearch THEN 4000 ELSE 0

RECURSIVE BestMatchFrom(_, _, _, _)
\* productWords.forEach over one query token
BestMatchFrom(token, productWords, i, bestMatch) ==
  IF i > Len(productWords) THEN bestMatch
  ELSE LET word == productWords[i]
           dist == levenshteinPart001(token, word)
           threshold == IF Len(token) > 5 THEN 2 ELSE 1
       IN  BestMatchFrom(token, productWords, i + 1,
             IF word \in SynonymsOfPart001(token) THEN 2000
             ELSE IF dist <= threshold THEN Max2(bestMatch, 1000 - dist * 200)
             ELSE bestMatch)

RECURSIVE BestMatchSum(_, _, _)
\* queryTokens.forEach: the sum of bestMatch
BestMatchSum(queryTokens, productWords, i) ==
  IF i > Len(queryTokens) THEN 0
  ELSE BestMatchFrom(queryTokens[i], productWords, 1, 0)
       + BestMatchSum(queryTokens, productWords, i + 1)

calculateMatchScorePart001(product, query) ==
  LET normalizedQuery == normalizeText(query)
      queryTokens     == NonEmpty(SplitSpace(normalizedQuery))
      productTitle    == normalizeText(product.title)
      productWords    == SplitSpace(productTitle)
  IN  IF Len(queryTokens) = 0 THEN 0
      ELSE LET anchorSynonyms == SynonymsOfPart001(queryTokens[1])
           IN  IF RejectedByAnchor(queryTokens, anchorSynonyms, productWords) THEN -1
               ELSE (IF ContainsAllTokens(queryTokens, productTitle) THEN 5000 ELSE 0)
                    + AnchorScore(anchorSynonyms, productWords)
                    - AccessoryMismatch(anchorSynonyms, productWords)
                    + BestMatchSum(queryTokens, productWords, 1)

\* the ranking step of handleSearch (src/unnamed/part_001:146-150)
MatchesPart001(products, name) ==
  LET scored == [i \in 1..Len(products) |->
                   [id |-> products[i].id, title |-> products[i].title,
                    supplier |-> products[i].supplier, price |-> products[i].price,
                    matchScore |-> calculateMatchScorePart001(products[i], name)]]
  IN  Slice(SortByScore(PositiveScores(scored)), MaxMatches)

(***************************************************************************)
(* extractShoppingItems (src/services/geminiService.ts:46-86).  The remote *)
(* model's answer is an input of the system; the local fallback is code.   *)
(***************************************************************************)
\* text.split(/[\n,]+/): a run of separators is one separator, a leading or
\* trailing run leaves an empty piece
RECURSIVE SplitRunsFrom(_, _, _, _)
SplitRunsFrom(s, i, cur, inRun) ==
  IF i > Len(s) THEN <<cur>>
  ELSE IF Char(s, i) \in {"\n", ","}
       THEN IF inRun THEN SplitRunsFrom(s, i + 1, "", TRUE)
            ELSE <<cur>> \o SplitRunsFrom(s, i + 1, "", TRUE)
       ELSE SplitRunsFrom(s, i + 1, cur \o Char(s, i), FALSE)

\* .map(s => ({ name: s.trim(), quantity: 1 })).filter(s => s.name.length > 0)
FallbackSplit(text) ==
  LET pieces == SplitRunsFrom(text, 1, "", FALSE)
      items  == [i \in 1..Len(pieces) |-> [name |-> Trim(pieces[i]), quantity |-> 1]]
  IN  SelectSeq(items, LAMBDA it : Len(it.name) > 0)

\* answers of the remote model: JSON arrays of {name, quantity}
ModelAnswers ==
  { << [name |-> "Bisturi", quantity |-> 2], [name |-> "Luva", quantity |-> 1] >>,
    << [name |-> "Cabo para bisturi", quantity |-> 1],
       [name |-> "AFASTADOR SEMM MUELLER 16CM", quantity |-> 2] >>,
    << [name |-> "Mayo", quantity |-> 1] >>,
    << [name |-> "Luva", quantity |-> 2], [name |-> "constructor", quantity |-> 1] >> }

\* what ai.models.generateContent may do: answer with the text of a JSON
\* array, answer without text, or throw
Responses ==
  {[kind |-> "text", items |-> answer] : answer \in ModelAnswers}
    \cup {[kind |-> "noText", items |-> <<>>], [kind |-> "throws", items |-> <<>>]}

\* a variant of extractShoppingItems that gives up without an answer
extractShoppingItemsNoFallback(text, response) ==
  IF response.kind = "text" THEN response.items ELSE <<>>

\* extractShoppingItems(text), given what the remote call did
extractShoppingItems(text, response) ==
  IF response.kind = "text" THEN response.items ELSE FallbackSplit(text)

\* what extractShoppingItems(text) may resolve to
ExtractedItems(text) == {extractShoppingItems(text, response) : response \in Responses}

(***************************************************************************)
(* Inputs: the catalogs the loader may deliver and the texts the operator  *)
(* may paste.  A product id stands for the string `prod-${index}-...`, by  *)
(* its index; a null price is written NullPrice.                           *)
(***************************************************************************)
NullPrice == -1

Row(title, supplier, price) == [title |-> title, supplier |-> supplier, price |-> price]

SmallSheet ==
  << Row("Bisturi n 15", "S1", 1000),
     Row("Bisturi", "S2", 1200),
     Row("Cabo para Bisturi", "S1", 800),
     Row("Afastador Senn Mueller 16cm", "S1", 4250),
     Row("Cabo Handle", "S2", NullPrice) >>

\* more rows than the ranking keeps for one term, in an order that is not
\* the ranking's
LargeSheet ==
  [i \in 1..(MaxMatches + ExtraRows) |->
     IF i % 2 = 1 THEN Row("Tesoura MAYO", "S1", 300) ELSE Row("Mayo", "S2", 200 + i)]

\* two retractors, the less specific title first
SennSheet ==
  << Row("Afastador Mueller 16cm", "S1", 4000),
     Row("Afastador Senn Mueller 16cm", "S2", 4250) >>

Sheets == {SmallSheet, LargeSheet, SennSheet, <<>>}

\* lines.slice(1).map((line, index) => ({ id: `prod-${index}-...`, ... }))
MappedProducts(sheet) ==
  [i \in 1..Len(sheet) |->
     [id |-> i - 1, title |-> sheet[i].title, supplier |-> sheet[i].supplier,
      price |-> sheet[i].price]]

RawTexts == {"", " \n", ", \n", "Bisturi,\nLuva "}

(***************************************************************************)
(* parseInt(e.target.value) || 1 (src/App.tsx:503, ProductTable.tsx:60).   *)
(***************************************************************************)
DigitValue ==
  ("0" :> 0) @@ ("1" :> 1) @@ ("2" :> 2) @@ ("3" :> 3) @@ ("4" :> 4) @@
  ("5" :> 5) @@ ("6" :> 6) @@ ("7" :> 7) @@ ("8" :> 8) @@ ("9" :> 9)

RECURSIVE LeadingDigits(_, _)
\* the longest prefix of s[i..] made of digits
LeadingDigits(s, i) ==
  IF i <= Len(s) /\ Char(s, i) \in Digits
  THEN Char(s, i) \o LeadingDigits(s, i + 1) ELSE ""

RECURSIVE DecimalValue(_, _)
DecimalValue(digits, acc) ==
  IF Len(digits) = 0 THEN acc
  ELSE DecimalValue(Tail(digits), acc * 10 + DigitValue[Head(digits)])

\* parseInt(s) || 1: NaN (no leading digits) and 0 give 1
ParseIntOr1(s) ==
  LET t      == TrimLeft(s)
      signed == Len(t) > 0 /\ Char(t, 1) \in {"-", "+"}
      digits == LeadingDigits(t, IF signed THEN 2 ELSE 1)
      value  == DecimalValue(digits, 0)
  IN  IF Len(digits) = 0 \/ value = 0 THEN 1
      ELSE IF signed /\ Char(t, 1) = "-" THEN 0 - value ELSE value

\* what the operator may type into a quantity input
QtyTexts == {"", "abc", "-1", "0"} \cup {ToString(n) : n \in 1..MaxQty}

(***************************************************************************)
(* State of the App component (src/App.tsx:201-211).  expandedRows and     *)
(* showToast only drive presentation and are left out.  pendingInput is    *)
(* the queryInput that the handleSearch call in flight has captured.       *)
(* call is one application of a module-level function (normalizeText,      *)
(* levenshtein, calculateMatchScore) with its arguments and results; the   *)
(* specifications of those functions, after the App's, step through it and *)
(* the App's specification leaves it idle.                                 *)
(***************************************************************************)
VARIABLES allProducts, bulkResults, quotationState, loading, isSearching,
          availableSuppliers, selectedSupplierFilter, queryInput, toastStats,
          pendingInput, call

appVars == <<allProducts, bulkResults, quotationState, loading, isSearching,
             availableSuppliers, selectedSupplierFilter, queryInput, toastStats,
             pendingInput>>

vars == <<appVars, call>>

NoCall == [fn |-> "none"]

AllSuppliers == "Todos os fornecedores"

EmptyMap == [k \in {} |-> 0]

AppInit ==
  /\ allProducts = <<>>
  /\ bulkResults = <<>>
  /\ quotationState = EmptyMap
  /\ loading = TRUE
  /\ isSearching = FALSE
  /\ availableSuppliers = {}
  /\ selectedSupplierFilter = AllSuppliers
  /\ queryInput = ""
  /\ toastStats = [exact |-> 0, similar |-> 0, notFound |-> 0]
  /\ pendingInput = ""

Init == AppInit /\ call = NoCall

(***************************************************************************)
(* Derived values (useMemo and the row render, src/App.tsx:297-313,        *)
(* 457-466, 513-523).  Line indexes are 0-based as in the code.            *)
(***************************************************************************)
LineIndexes(results) == 0..(Len(results) - 1)

filteredResults ==
  IF selectedSupplierFilter = AllSuppliers THEN bulkResults
  ELSE [i \in 1..Len(bulkResults) |->
          [bulkResults[i] EXCEPT
             !.products = SelectSeq(@, LAMBDA p : p.supplier = selectedSupplierFilter)]]

\* Object.keys(quotationState[idx] || {})
SelectedIds(idx) ==
  IF idx \in DOMAIN quotationState THEN DOMAIN quotationState[idx] ELSE {}

NoId == -1

\* selectedIds[0] || (result.products.length > 0 ? result.products[0].id : null)
ActiveId(idx) ==
  LET result == filteredResults[idx + 1]
  IN  IF SelectedIds(idx) # {}
      THEN CHOOSE id \in SelectedIds(idx) : \A other \in SelectedIds(idx) : id <= other
      ELSE IF Len(result.products) > 0 THEN result.products[1].id ELSE NoId

\* activeId ? result.products.find(prod => prod.id === activeId) : null,
\* as a sequence: empty for null, else the product found
ActiveProduct(idx) ==
  LET hits == SelectSeq(filteredResults[idx + 1].products,
                        LAMBDA prod : prod.id = ActiveId(idx))
  IN  IF Len(hits) = 0 THEN <<>> ELSE <<hits[1]>>

\* activeId ? (quotationState[idx]?.[activeId] || result.detectedQuantity)
\*          : result.detectedQuantity
ActiveQty(idx) ==
  LET result == filteredResults[idx + 1]
      activeId == ActiveId(idx)
  IN  IF /\ activeId # NoId
         /\ activeId \in SelectedIds(idx)
         /\ quotationState[idx][activeId] # 0
      THEN quotationState[idx][activeId]
      ELSE result.detectedQuantity

\* p?.price || 0
PriceOrZero(p) == IF Len(p) = 0 \/ p[1].price = NullPrice THEN 0 ELSE p[1].price

RECURSIVE TotalFrom(_)
\* filteredResults.reduce((total, result, idx) => total + price * qty, 0)
TotalFrom(idx) ==
  IF idx >= Len(filteredResults) THEN 0
  ELSE PriceOrZero(ActiveProduct(idx)) * ActiveQty(idx) + TotalFrom(idx + 1)

grandTotal == TotalFrom(0)

\* p && normalizeText(result.term) === normalizeText(p.title)
IsExact(idx) ==
  LET p == ActiveProduct(idx)
  IN  Len(p) > 0 /\ normalizeText(filteredResults[idx + 1].term) = normalizeText(p[1].title)

HasMatches(idx) == Len(filteredResults[idx + 1].products) > 0

\* the status cell of a row
StatusCell(idx) ==
  IF HasMatches(idx) THEN (IF IsExact(idx) THEN "Exato" ELSE "Similar") ELSE "Nao Enc."

\* the Status column of a row of handleExportCSV (src/App.tsx:317-323): the
\* export resolves p as the table does and classifies by p alone
CsvStatus(idx) ==
  IF IsExact(idx) THEN "Exato"
  ELSE IF Len(ActiveProduct(idx)) > 0 THEN "Similar" ELSE "Nao Encontrado"

(***************************************************************************)
(* Operations.                                                             *)
(***************************************************************************)
\* a variant of WithSelection that keeps the line's other keys:
\* { ...prev, [idx]: { ...prev[idx], [id]: qty } }
WithSelectionMerged(prev, idx, id, qty) ==
  (idx :> ((id :> qty) @@ (IF idx \in DOMAIN prev THEN prev[idx] ELSE EmptyMap))) @@ prev

\* { ...prev, [idx]: { [id]: qty } }, the updater of all three writers of
\* quotationState (src/App.tsx:251, 291-294, 542)
WithSelection(prev, idx, id, qty) == (idx :> (id :> qty)) @@ prev

\* Array.from(new Set(data.map(p => p.supplier))).sort(), as a set
Suppliers(data) == {data[i].supplier : i \in 1..Len(data)}

\* what the catalog source may be: unreachable (fetch rejects or answers
\* not ok), an HTML page instead of the sheet, or CSV text with the given
\* rows under its header line (no row: blank or header-only text)
Sources ==
  {[kind |-> "unreachable", rows |-> <<>>], [kind |-> "html", rows |-> <<>>]}
    \cup {[kind |-> "csv", rows |-> sheet] : sheet \in Sheets}

\* a variant of fetchAndParseProducts that answers a built-in catalog when
\* the source fails
fetchAndParseProductsDefault(source) ==
  IF source.kind = "csv" THEN MappedProducts(source.rows) ELSE MappedProducts(SmallSheet)

\* fetchAndParseProducts (src/services/geminiService.ts:119-172): the throw
\* of an unreachable source or of an HTML page is caught and answered by []
fetchAndParseProducts(source) ==
  IF source.kind = "csv" THEN MappedProducts(source.rows) ELSE <<>>

\* the try block of init (src/App.tsx:217-224), given the catalog source
Load(source) ==
  LET data == fetchAndParseProducts(source)
  IN  IF Len(data) > 0
      THEN /\ allProducts' = data
           /\ availableSuppliers' = Suppliers(data)
      ELSE UNCHANGED <<allProducts, availableSuppliers>>

\* the effect of the mount (src/App.tsx:215-231)
init ==
  /\ loading
  /\ \E source \in Sources : Load(source)
  /\ loading' = FALSE
  /\ UNCHANGED <<bulkResults, quotationState, isSearching, selectedSupplierFilter,
                 queryInput, toastStats, pendingInput, call>>

\* the textarea's onChange (src/App.tsx:382)
setQueryInput ==
  /\ ~loading
  /\ \E text \in RawTexts : queryInput' = text
  /\ UNCHANGED <<allProducts, bulkResults, quotationState, loading, isSearching,
                 availableSuppliers, selectedSupplierFilter, toastStats, pendingInput,
                 call>>

\* a variant of SearchIgnored that only tests the input
SearchIgnoredBlankOnly == Trim(queryInput) = ""

\* the test of handleSearch's early return (src/App.tsx:234)
SearchIgnored == Trim(queryInput) = "" \/ isSearching

\* a call of handleSearch up to its await (src/App.tsx:233-241): it returns
\* at once on a blank input or during a search, else it starts the search
handleSearchStart ==
  /\ ~loading
  /\ IF SearchIgnored
     THEN UNCHANGED <<isSearching, quotationState, pendingInput>>
     ELSE /\ isSearching' = TRUE
          /\ quotationState' = EmptyMap
          /\ pendingInput' = queryInput
  /\ UNCHANGED <<allProducts, bulkResults, loading, availableSuppliers,
                 selectedSupplierFilter, queryInput, toastStats, call>>

\* the terms a search of this model may extract
TermNames ==
  UNION {{answer[i].name : i \in 1..Len(answer)} :
           answer \in ModelAnswers \cup {FallbackSplit(text) : text \in RawTexts}}

\* the keys a query token finds on the thesaurus object although the
\* literal does not list them: of the properties of Object.prototype only
\* 'constructor' is a word normalizeText can produce
InheritedKeys == {"constructor"}

\* medicalThesaurus[qToken] || [qToken] is then a function, not an array,
\* and synonyms.some(...) throws a TypeError (src/App.tsx:142-147; the title
\* has at least one token, so the call is reached for every query token)
ScoreThrows(query) ==
  LET queryTokens == NonEmpty(SplitSpace(normalizeText(query)))
  IN  \E i \in 1..Len(queryTokens) : queryTokens[i] \in InheritedKeys

\* extractShoppingItems and normalizeText are pure functions too; the search
\* reads their values for the texts, answers, terms and titles of this model
\* from tables
ExtractedTable ==
  [text \in RawTexts \cup {""}, response \in Responses |->
     extractShoppingItems(text, response)]

CatalogTitles == UNION {{sheet[i].title : i \in 1..Len(sheet)} : sheet \in Sheets}

NormalizedTable == [text \in TermNames \cup CatalogTitles |-> normalizeText(text)]

\* the terms of this model whose ranking throws
ThrowingTerms == {term \in TermNames : ScoreThrows(term)}

\* Matches is a pure function of the catalog and the term; its values for the
\* catalogs and the terms of this model that can be ranked are tabulated once
MatchesTable ==
  [products \in {MappedProducts(sheet) : sheet \in Sheets}, name \in TermNames |->
     IF Len(products) = 0 \/ name \notin ThrowingTerms
     THEN Matches(products, name) ELSE <<>>]

\* the index of the first extracted item whose ranking throws, 0 if none
\* does; an empty catalog is never scored
FirstThrowing(extractedItems) ==
  LET throwing == {i \in 1..Len(extractedItems) : extractedItems[i].name \in ThrowingTerms}
  IN  IF Len(allProducts) = 0 \/ throwing = {} THEN 0
      ELSE CHOOSE i \in throwing : \A j \in throwing : i <= j

\* one BulkSearchResult of extractedItems.map (src/App.tsx:243-259)
SearchResult(item) ==
  [term |-> item.name, products |-> MatchesTable[allProducts, item.name],
   detectedQuantity |-> item.quantity]

\* extractedItems.map((item, index) => ...): one result per item
AllSearchResults(extractedItems) ==
  [i \in 1..Len(extractedItems) |-> SearchResult(extractedItems[i])]

\* a variant of SearchResults that drops the terms without candidates
SearchResultsFoundOnly(extractedItems) ==
  SelectSeq(AllSearchResults(extractedItems), LAMBDA r : Len(r.products) > 0)

SearchResults(extractedItems) == AllSearchResults(extractedItems)

RECURSIVE DefaultSelections(_, _, _)
\* the setQuotationState(prev => ...) updaters queued by the map callback,
\* applied in order to the state they find
DefaultSelections(results, i, prev) ==
  IF i > Len(results) THEN prev
  ELSE DefaultSelections(results, i + 1,
         IF Len(results[i].products) > 0
         THEN WithSelection(prev, i - 1, results[i].products[1].id,
                            results[i].detectedQuantity)
         ELSE prev)

\* the counters of the toast (src/App.tsx:264-280)
ToastStats(results) ==
  LET lines == 1..Len(results)
      exactLines == {i \in lines : /\ Len(results[i].products) > 0
                                   /\ NormalizedTable[results[i].term]
                                        = NormalizedTable[results[i].products[1].title]}
      notFoundLines == {i \in lines : Len(results[i].products) = 0}
  IN  [exact |-> Cardinality(exactLines),
       similar |-> Cardinality(lines \ (exactLines \cup notFoundLines)),
       notFound |-> Cardinality(notFoundLines)]

\* a variant of SearchFinish that keeps the published line of a term the new
\* search finds nothing for
SearchFinishMerging(response) ==
  LET extractedItems == ExtractedTable[pendingInput, response]
      thrown == FirstThrowing(extractedItems)
      ranked == IF thrown = 0 THEN extractedItems
                ELSE SubSeq(extractedItems, 1, thrown - 1)
      results == SearchResults(ranked)
      merged == [i \in 1..Len(results) |->
                   IF Len(results[i].products) = 0 /\ i <= Len(bulkResults)
                   THEN bulkResults[i] ELSE results[i]]
  IN  /\ quotationState' = DefaultSelections(results, 1, quotationState)
      /\ IF thrown = 0
         THEN /\ bulkResults' = merged
              /\ toastStats' = ToastStats(results)
         ELSE UNCHANGED <<bulkResults, toastStats>>

\* the body of handleSearch's try block from the resolution of
\* extractShoppingItems on (src/App.tsx:241-280), given what the remote call
\* did.  When the ranking of an item throws, the map callback has queued the
\* default selections of the items before it and the catch block
\* (src/App.tsx:282-284) skips setBulkResults and the toast.
SearchFinish(response) ==
  LET extractedItems == ExtractedTable[pendingInput, response]
      thrown == FirstThrowing(extractedItems)
      ranked == IF thrown = 0 THEN extractedItems
                ELSE SubSeq(extractedItems, 1, thrown - 1)
      results == SearchResults(ranked)
  IN  /\ quotationState' = DefaultSelections(results, 1, quotationState)
      /\ IF thrown = 0
         THEN /\ bulkResults' = results
              /\ toastStats' = ToastStats(results)
         ELSE UNCHANGED <<bulkResults, toastStats>>

\* handleSearch from the resolution of extractShoppingItems to its end
\* (src/App.tsx:241-287)
handleSearchFinish ==
  /\ isSearching
  /\ \E response \in Responses : SearchFinish(response)
  /\ isSearching' = FALSE
  /\ UNCHANGED <<allProducts, loading, availableSuppliers, selectedSupplierFilter,
                 queryInput, pendingInput, call>>

\* a variant of QuantityChange that stores the parsed number without
\* Math.max(1, ...)
QuantityChangeUnclamped(termIndex, typed) ==
  /\ Len(ActiveProduct(termIndex)) > 0
  /\ LET productId == ActiveProduct(termIndex)[1].id
         newQty == ParseIntOr1(typed)
     IN  quotationState' = WithSelection(quotationState, termIndex, productId, newQty)

\* handleQuantityChange(termIndex, p.id, parseInt(typed) || 1)
\* (src/App.tsx:290-295, 503): the onChange of a quantity input holding the
\* text typed
QuantityChange(termIndex, typed) ==
  /\ Len(ActiveProduct(termIndex)) > 0
  /\ LET productId == ActiveProduct(termIndex)[1].id
         newQty == ParseIntOr1(typed)
     IN  quotationState' =
           WithSelection(quotationState, termIndex, productId, Max2(1, newQty))

\* handleQuantityChange (src/App.tsx:290-295), called by the quantity input of
\* a row (src/App.tsx:497-505) or of the alternatives table
\* (ProductTable.tsx:55-62); either input is enabled only for the product the
\* row resolves
handleQuantityChange ==
  /\ ~loading
  /\ \E termIndex \in LineIndexes(bulkResults) :
       \E typed \in QtyTexts : QuantityChange(termIndex, typed)
  /\ UNCHANGED <<allProducts, bulkResults, loading, isSearching, availableSuppliers,
                 selectedSupplierFilter, queryInput, toastStats, pendingInput, call>>

\* setQuotationState(prev => ({ ...prev, [tIdx]: { [pId]:
\* result.detectedQuantity || 1 } })) (src/App.tsx:542)
ToggleSelect(tIdx, pId) ==
  LET result == filteredResults[tIdx + 1]
      qty == IF result.detectedQuantity # 0 THEN result.detectedQuantity ELSE 1
  IN  quotationState' = WithSelection(quotationState, tIdx, pId, qty)

\* onToggleSelect (src/App.tsx:539-543), called by the check box of a product
\* of the row's alternatives table (ProductTable.tsx:30-40), which lists
\* the row's products under the supplier filter
onToggleSelect ==
  /\ ~loading
  /\ \E tIdx \in LineIndexes(bulkResults) :
       \E k \in 1..Len(filteredResults[tIdx + 1].products) :
          ToggleSelect(tIdx, filteredResults[tIdx + 1].products[k].id)
  /\ UNCHANGED <<allProducts, bulkResults, loading, isSearching, availableSuppliers,
                 selectedSupplierFilter, queryInput, toastStats, pendingInput, call>>

\* the supplier select's onChange (src/App.tsx:416-423), rendered with the
\* results card
setSelectedSupplierFilter ==
  /\ ~loading
  /\ Len(bulkResults) > 0
  /\ \E s \in {AllSuppliers} \cup availableSuppliers : selectedSupplierFilter' = s
  /\ UNCHANGED <<allProducts, bulkResults, quotationState, loading, isSearching,
                 availableSuppliers, queryInput, toastStats, pendingInput, call>>

Next ==
  \/ init
  \/ setQueryInput
  \/ handleSearchStart
  \/ handleSearchFinish
  \/ handleQuantityChange
  \/ onToggleSelect
  \/ setSelectedSupplierFilter

Spec == Init /\ [][Next]_vars

(***************************************************************************)
(* normalizeText on its own: the text grows by one character of the        *)
(* alphabet at a time; each step normalizes it, and normalizes the result  *)
(* again.                                                                  *)
(***************************************************************************)
\* an upper-case and a lower-case letter, accented letters of both cases, a
\* combining mark, a digit, punctuation, a blank and a line break
TextAlphabet == {"A", "b", "É", "ç", "´", "7", "-", " ", "\n"}

NormalizeCall(text) ==
  [fn |-> "normalizeText", text |-> text,
   normalized |-> normalizeText(text),
   renormalized |-> normalizeText(normalizeText(text))]

NormalizeInit == AppInit /\ call = NormalizeCall("")

normalizeNext ==
  /\ Len(call.text) < MaxTextLen
  /\ \E c \in TextAlphabet : call' = NormalizeCall(call.text \o c)
  /\ UNCHANGED appVars

SpecNormalizeText == NormalizeInit /\ [][normalizeNext]_vars

(***************************************************************************)
(* levenshtein on its own: two tokens grow by one letter at a time; each   *)
(* step takes their distance in both orders, and by the earlier App's      *)
(* function.                                                               *)
(***************************************************************************)
TokenAlphabet == {"a", "b", "c"}

LevenshteinCall(a, b) ==
  [fn |-> "levenshtein", a |-> a, b |-> b,
   ab |-> levenshtein(a, b), ba |-> levenshtein(b, a),
   part001 |-> levenshteinPart001(a, b)]

LevenshteinInit == AppInit /\ call = LevenshteinCall("", "")

levenshteinGrowA ==
  /\ Len(call.a) < MaxTokenLen
  /\ \E c \in TokenAlphabet : call' = LevenshteinCall(call.a \o c, call.b)
  /\ UNCHANGED appVars

levenshteinGrowB ==
  /\ Len(call.b) < MaxTokenLen
  /\ \E c \in TokenAlphabet : call' = LevenshteinCall(call.a, call.b \o c)
  /\ UNCHANGED appVars

LevenshteinNext == levenshteinGrowA \/ levenshteinGrowB

SpecLevenshtein == LevenshteinInit /\ [][LevenshteinNext]_vars

(***************************************************************************)
(* The earlier App's scorer on its own: a query is scored and ranked       *)
(* against a catalog that grows by one row at a time.                      *)
(***************************************************************************)
StrictQueries == {"Pinça Mayo", "Tesoura Mayo", "Mayo", "Cabo Bisturi", "Tes Mayo"}

StrictTitles == {"Tesoura Mayo", "Pinça Kelly", "Cabo para Bisturi", "Tesourao Mayo", "Mayo"}

StrictScoreCall(query, rows) ==
  LET products == MappedProducts(rows)
  IN  [fn |-> "calculateMatchScore", query |-> query, rows |-> rows,
       scores |-> [n \in 1..Len(products) |-> calculateMatchScorePart001(products[n], query)],
       matches |-> MatchesPart001(products, query)]

StrictScoreInit ==
  /\ AppInit
  /\ \E query \in StrictQueries : call = StrictScoreCall(query, <<>>)

strictScoreNext ==
  /\ Len(call.rows) < MaxCatalogLen
  /\ \E title \in StrictTitles :
        call' = StrictScoreCall(call.query, Append(call.rows, Row(title, "S1", 100)))
  /\ UNCHANGED appVars

SpecStrictScore == StrictScoreInit /\ [][strictScoreNext]_vars

(***************************************************************************)
(* calculateMatchScore (src/App.tsx:101-198) on its own: a query is scored *)
(* and ranked against a catalog that grows by one row at a time.  The call *)
(* keeps, for each row, what each step of the function adds to totalScore. *)
(***************************************************************************)
ScoreQueries ==
  {"para de", "15", "x", "Bisturi", "cabo bisturi", "mayo", "volk 1000",
   "conjunto fio", "bisturis"}

ScoreTitles ==
  {"Bisturi", "Cabo Bisturi", "Suporte Bisturi", "Tesoura Maio 15cm",
   "Volkmann 1001", "Conjuntos Fios Caixa"}

\* normalizedQuery.split(" ").filter(t => t.length > 0)
QueryTokens(query) == NonEmpty(SplitSpace(normalizeText(query)))

\* normalizedTitle.split(" ")
ProductTokens(title) == SplitSpace(normalizeText(title))

\* the values of one calculateMatchScore(product, query) call with a
\* non-empty query: the completeness bonus, bestTokenScore (in tenths) of
\* each query token, the anchor bonus, the accessory penalty, the result
ScoreSteps(product, query) ==
  LET queryTokens    == QueryTokens(query)
      productTokens  == ProductTokens(product.title)
      anchorSynonyms == SynonymsOf(queryTokens[1])
  IN  [bonus |-> IF AllImportantTokensPresent(queryTokens, normalizeText(product.title))
                 THEN 6000 ELSE 0,
       best |-> [i \in 1..Len(queryTokens) |-> BestTokenScore(queryTokens[i], productTokens)],
       anchor |-> AnchorBonus(anchorSynonyms, productTokens),
       penalty |-> AccessoryPenalty(anchorSynonyms, productTokens),
       total |-> calculateMatchScore(product, query)]

ScoreCall(query, rows) ==
  LET products == MappedProducts(rows)
  IN  [fn |-> "App.calculateMatchScore", query |-> query, rows |-> rows,
       steps |-> [n \in 1..Len(products) |-> ScoreSteps(products[n], query)],
       matches |-> Matches(products, query)]

ScoreInit ==
  /\ AppInit
  /\ \E query \in ScoreQueries : call = ScoreCall(query, <<>>)

scoreNext ==
  /\ Len(call.rows) < MaxCatalogLen
  /\ \E title \in ScoreTitles :
        call' = ScoreCall(call.query, Append(call.rows, Row(title, "S1", 100)))
  /\ UNCHANGED appVars

SpecMatchScore == ScoreInit /\ [][scoreNext]_vars

(***************************************************************************)
(* Steps of handleSearch, recognised by isSearching.                       *)
(***************************************************************************)
SearchStarts == ~isSearching /\ isSearching'

SearchCompletes == isSearching /\ ~isSearching'

\* a search completes and publishes its results: no ranking threw
SearchPublishes ==
  /\ SearchCompletes
  /\ \E response \in Responses :
        /\ FirstThrowing(extractShoppingItems(pendingInput, response)) = 0
        /\ SearchFinish(response)

\* a search completes in the catch block: the ranking of a term threw
SearchThrows ==
  /\ SearchCompletes
  /\ \E response \in Responses :
        /\ FirstThrowing(extractShoppingItems(pendingInput, response)) > 0
        /\ SearchFinish(response)

(***************************************************************************)
(* Properties.                                                             *)
(***************************************************************************)

\* C1: every published candidate list has at most 15 entries, is ordered by
\* non-increasing matchScore and holds no entry whose matchScore is <= 0.
C1_RankBounded ==
  \A i \in 1..Len(bulkResults) :
     LET products == bulkResults[i].products
     IN  /\ Len(products) <= 15
         /\ \A k \in 1..Len(products) : products[k].matchScore > 0
         /\ \A k \in 1..(Len(products) - 1) :
               products[k].matchScore >= products[k + 1].matchScore

\* a term that more than 15 catalog items match, with different scores
C1_Witness ==
  \E i \in 1..Len(bulkResults) :
     LET products == bulkResults[i].products
     IN  /\ Len(products) = 15
         /\ Len(PositiveScores(WithScores(allProducts, bulkResults[i].term))) > 15
         /\ products[1].matchScore > products[15].matchScore

\* C2: a query whose normalized text equals a catalog item's normalized title
\* has that item as its first candidate.
C2_ExactTitleFirst ==
  \A i \in 1..Len(bulkResults) :
     \A k \in 1..Len(allProducts) :
        normalizeText(bulkResults[i].term) = normalizeText(allProducts[k].title)
        => /\ Len(bulkResults[i].products) > 0
           /\ bulkResults[i].products[1].id = allProducts[k].id

\* C3: for a thesaurus key k and a declared variant v of k, the query token v
\* against the title token k has match quality 1.0 and passes the
\* completeness gate, as the query token k against the title token v does.
C3_ThesaurusSymmetric ==
  \A i \in 1..Len(bulkResults) :
     \A n \in 1..Len(allProducts) :
        LET queryTokens     == NonEmpty(SplitSpace(normalizeText(bulkResults[i].term)))
            normalizedTitle == normalizeText(allProducts[n].title)
            productTokens   == SplitSpace(normalizedTitle)
        IN  \A q \in 1..Len(queryTokens) :
               \A t \in 1..Len(productTokens) :
                  LET v == queryTokens[q]
                      k == productTokens[t]
                  IN  (k \in DOMAIN medicalThesaurus /\ v \in medicalThesaurus[k])
                      => /\ TokenQuality(k, v) = 10
                         /\ TokenQuality(v, k) = 10
                         /\ ImportantTokenPresent(v, normalizedTitle)

\* C4: every line index of quotationState maps to at most one selected id.
C4_SingleSelection ==
  \A idx \in DOMAIN quotationState : Cardinality(DOMAIN quotationState[idx]) <= 1

\* a line whose default selection was replaced by another candidate, and a
\* line whose quantity was changed
C4_Witness ==
  /\ ~isSearching
  /\ \E idx \in DOMAIN quotationState :
        /\ idx \in LineIndexes(bulkResults)
        /\ Len(bulkResults[idx + 1].products) > 1
        /\ bulkResults[idx + 1].products[1].id \notin DOMAIN quotationState[idx]
        /\ \E id \in DOMAIN quotationState[idx] :
              quotationState[idx][id] # bulkResults[idx + 1].detectedQuantity

\* C5: once a line has a selection entry, the id and the quantity the line
\* resolves stay those of the entry in every later state, until the next
\* search starts or the line is overridden again; supplier-filter changes
\* do not touch them.
C5_OverridePersists ==
  [][ \A idx \in DOMAIN quotationState :
        ( /\ ~SearchStarts
          /\ idx \in LineIndexes(bulkResults)
          /\ idx \in LineIndexes(bulkResults')
          /\ ~(isSearching' = isSearching /\ quotationState' # quotationState) )
        => /\ ActiveId(idx)' = ActiveId(idx)
           /\ ActiveQty(idx)' = ActiveQty(idx) ]_vars

\* C6: quotationState is empty right after a search starts, and when the
\* search completes it has an entry exactly for the lines with at least one
\* candidate, each being the top candidate with the requested quantity.
C6_SelectionAfterSearch ==
  [][ /\ SearchStarts => quotationState' = EmptyMap
      /\ SearchCompletes =>
           /\ DOMAIN quotationState' =
                {idx \in LineIndexes(bulkResults') : Len(bulkResults'[idx + 1].products) > 0}
           /\ \A idx \in DOMAIN quotationState' :
                 quotationState'[idx] =
                   (bulkResults'[idx + 1].products[1].id :> bulkResults'[idx + 1].detectedQuantity)
    ]_vars

\* the effective selection of a line as the specification defines it: the
\* override if present, else the top candidate with the requested quantity
EffectiveItem(idx) ==
  LET products == bulkResults[idx + 1].products
  IN  IF SelectedIds(idx) # {}
      THEN SelectSeq(products, LAMBDA p : p.id \in SelectedIds(idx))
      ELSE Slice(products, 1)

EffectiveQuantity(idx) ==
  IF SelectedIds(idx) # {}
  THEN quotationState[idx][CHOOSE id \in SelectedIds(idx) : TRUE]
  ELSE bulkResults[idx + 1].detectedQuantity

LineAmount(idx) ==
  LET item == EffectiveItem(idx)
  IN  IF /\ Len(item) > 0
         /\ selectedSupplierFilter \in {AllSuppliers, item[1].supplier}
         /\ item[1].price # NullPrice
      THEN item[1].price * EffectiveQuantity(idx)
      ELSE 0

RECURSIVE SumAmounts(_)
SumAmounts(lines) ==
  IF lines = {} THEN 0
  ELSE LET idx == CHOOSE l \in lines : TRUE
       IN  LineAmount(idx) + SumAmounts(lines \ {idx})

\* C7: the grand total is the sum over the lines of price x effective
\* quantity of the line's effective item when the item's supplier passes the
\* supplier filter, 0 for a line without effective item or with a filtered
\* out one; a null price counts as 0.
C7_GrandTotal == grandTotal = SumAmounts(LineIndexes(bulkResults))

\* C8: a line's classification is Exact iff an effective item exists and its
\* normalized title equals the term's, Similar iff an effective item exists
\* and the titles differ, NotFound iff the line has no candidates.
C8_Classification ==
  \A idx \in LineIndexes(bulkResults) :
     LET p == ActiveProduct(idx)
         sameTitle == /\ Len(p) > 0
                      /\ normalizeText(bulkResults[idx + 1].term) = normalizeText(p[1].title)
     IN  /\ StatusCell(idx) = "Exato" <=> (Len(p) > 0 /\ sameTitle)
         /\ StatusCell(idx) = "Similar" <=> (Len(p) > 0 /\ ~sameTitle)
         /\ StatusCell(idx) = "Nao Enc." <=> Len(bulkResults[idx + 1].products) = 0

\* C9: the results a search publishes have one line per extracted term, in
\* the terms' order, with the term's name and quantity, whether or not the
\* term has candidates.
C9_LinePerTerm ==
  [][ SearchPublishes =>
        \E extractedItems \in ExtractedItems(pendingInput) :
           /\ Len(bulkResults') = Len(extractedItems)
           /\ \A i \in 1..Len(extractedItems) :
                 /\ bulkResults'[i].term = extractedItems[i].name
                 /\ bulkResults'[i].detectedQuantity = extractedItems[i].quantity ]_vars

\* two lines published, the first with candidates and the second without
C9_Witness ==
  /\ Len(bulkResults) = 2
  /\ Len(bulkResults[1].products) > 0
  /\ Len(bulkResults[2].products) = 0

\* C10: of two candidates of a line, the earlier one has the higher score, or
\* the same score and the earlier place in the catalog.
C10_StableOrder ==
  \A i \in 1..Len(bulkResults) :
     LET products == bulkResults[i].products
     IN  \A a, b \in 1..Len(products) :
            a < b => \/ products[a].matchScore > products[b].matchScore
                     \/ /\ products[a].matchScore = products[b].matchScore
                        /\ products[a].id < products[b].id

\* a line with candidates of equal score, ranked in another order than the
\* catalog's
C10_Witness ==
  \E i \in 1..Len(bulkResults) :
     LET products == bulkResults[i].products
     IN  /\ \E a, b \in 1..Len(products) :
               a < b /\ products[a].matchScore = products[b].matchScore
         /\ \E a, b \in 1..Len(products) : a < b /\ products[a].id > products[b].id

\* C11: a quantity override typed as a non-numeric, zero or negative value
\* is stored as 1, and one typed as a number n >= 1 is stored as n.
C11_QuantityClamped ==
  [][ \A termIndex \in LineIndexes(bulkResults) :
        \A typed \in QtyTexts :
           QuantityChange(termIndex, typed) =>
             LET stored == quotationState'[termIndex][ActiveProduct(termIndex)[1].id]
             IN  /\ \A n \in 1..MaxQty : typed = ToString(n) => stored = n
                 /\ typed \notin {ToString(n) : n \in 1..MaxQty} => stored = 1 ]_vars

\* a line that asked for more than one unit and whose stored quantity was
\* typed down to 1
C11_Witness ==
  /\ ~isSearching
  /\ \E idx \in DOMAIN quotationState :
        /\ idx \in LineIndexes(bulkResults)
        /\ bulkResults[idx + 1].detectedQuantity > 1
        /\ \E id \in DOMAIN quotationState[idx] : quotationState[idx][id] = 1

\* the text holds a character that is neither white space nor a comma
HasTermChar(text) ==
  \E i \in 1..Len(text) : Char(text, i) \notin {" ", "\n", "\t", ","}

\* a completing step of a search whose extraction call answered without text
\* or threw
FallbackCompletes(response) ==
  /\ isSearching
  /\ response.kind # "text"
  /\ SearchFinish(response)
  /\ ~isSearching'

\* the published lines are the trimmed non-empty pieces between the line
\* breaks and commas of the text, in order, each with quantity 1
LinesAreFallbackPieces(text, results) ==
  /\ Len(results) = Len(FallbackSplit(text))
  /\ \A i \in 1..Len(results) :
        /\ results[i].term = FallbackSplit(text)[i].name
        /\ results[i].term # "" /\ results[i].term = Trim(results[i].term)
        /\ \A k \in 1..Len(results[i].term) : Char(results[i].term, k) \notin {"\n", ","}
        /\ Includes(text, results[i].term)
        /\ results[i].detectedQuantity = 1
        /\ results[i].products = MatchesTable[allProducts, results[i].term]

EmptyCatalogResults ==
  /\ \A idx \in LineIndexes(bulkResults) :
        /\ bulkResults[idx + 1].products = <<>>
        /\ Len(ActiveProduct(idx)) = 0
        /\ StatusCell(idx) = "Nao Enc."
  /\ quotationState = EmptyMap
  /\ grandTotal = 0
  /\ ~isSearching =>
       toastStats = [exact |-> 0, similar |-> 0, notFound |-> Len(bulkResults)]

LinesOfOneSearch(extractedItems) ==
  [i \in 1..Len(extractedItems) |->
     [term |-> extractedItems[i].name,
      products |-> MatchesTable[allProducts, extractedItems[i].name],
      detectedQuantity |-> extractedItems[i].quantity]]

\* C14: bulkResults changes only when a started search completes, and then
\* it becomes, in one step, the ranked lines of that search's terms and
\* nothing else; it never holds lines of two searches.
C14_PublishedAtOnce ==
  [][ /\ bulkResults' # bulkResults =>
           /\ SearchCompletes
           /\ \E extractedItems \in ExtractedItems(pendingInput) :
                 bulkResults' = LinesOfOneSearch(extractedItems)
      /\ \E text \in RawTexts :
            \E extractedItems \in ExtractedItems(text) \cup {<<>>} :
               bulkResults' = LinesOfOneSearch(extractedItems)' ]_vars

\* a second search in flight on another text while the lines of the first
\* are still published
C14_Witness ==
  /\ isSearching
  /\ Len(bulkResults) = 2
  /\ FallbackSplit(pendingInput) = <<>>

\* the classification of a published line by its top candidate, as the
\* toast counts it (src/App.tsx:268-279)
TopClassification(result) ==
  IF Len(result.products) = 0 THEN "NotFound"
  ELSE IF normalizeText(result.term) = normalizeText(result.products[1].title)
       THEN "Exact" ELSE "Similar"

\* C15: when the catalog holds 'Afastador Senn Mueller 16cm', the line of the
\* term 'AFASTADOR SEMM MUELLER 16CM' has that item as its top candidate,
\* with a positive score, and is classified Similar.
C15_SemmExample ==
  \A i \in 1..Len(bulkResults) :
     ( /\ bulkResults[i].term = "AFASTADOR SEMM MUELLER 16CM"
       /\ \E n \in 1..Len(allProducts) : allProducts[n].title = "Afastador Senn Mueller 16cm" )
     => /\ Len(bulkResults[i].products) > 0
        /\ bulkResults[i].products[1].title = "Afastador Senn Mueller 16cm"
        /\ bulkResults[i].products[1].matchScore > 0
        /\ TopClassification(bulkResults[i]) = "Similar"

\* a title that names a scalpel and no handle or holder
IsPlainBisturi(title) ==
  LET productTokens == SplitSpace(normalizeText(title))
  IN  /\ InSeq(productTokens, "bisturi")
      /\ ~InSeq(productTokens, "cabo") /\ ~InSeq(productTokens, "suporte")

\* C16: in a catalog with plain 'Bisturi' items and the item 'Cabo para
\* Bisturi', the line of the term 'Cabo para bisturi' ranks that item first,
\* with a score above that of every plain 'Bisturi' item; the anchor 'cabo'
\* is the title's first token and the item gets no accessory penalty.
C16_CaboExample ==
  \A i \in 1..Len(bulkResults) :
     ( /\ bulkResults[i].term = "Cabo para bisturi"
       /\ \E n \in 1..Len(allProducts) : allProducts[n].title = "Cabo para Bisturi" )
     => LET products       == bulkResults[i].products
            anchorSynonyms == SynonymsOf(Head(SplitSpace(normalizeText(bulkResults[i].term))))
            productTokens  == SplitSpace(normalizeText("Cabo para Bisturi"))
        IN  /\ Len(products) > 0
            /\ products[1].title = "Cabo para Bisturi"
            /\ \A n \in 1..Len(allProducts) :
                  IsPlainBisturi(allProducts[n].title) =>
                    /\ \A k \in 1..Len(products) :
                          products[k].id = allProducts[n].id =>
                            products[k].matchScore < products[1].matchScore
                    /\ products[1].id # allProducts[n].id
            /\ "cabo" \in anchorSynonyms
            /\ AnchorBonus(anchorSynonyms, productTokens) = 2000
            /\ AccessoryPenalty(anchorSynonyms, productTokens) = 0

\* the line published for the term on a catalog where the plain items come
\* before the handle
C16_Witness ==
  /\ ~isSearching
  /\ \E i \in 1..Len(bulkResults) :
        /\ bulkResults[i].term = "Cabo para bisturi"
        /\ Len(bulkResults[i].products) >= 3
        /\ bulkResults[i].products[1].title = "Cabo para Bisturi"
        /\ \E k \in 2..Len(bulkResults[i].products) :
              /\ IsPlainBisturi(bulkResults[i].products[k].title)
              /\ bulkResults[i].products[k].id < bulkResults[i].products[1].id

\* C17: normalizing a normalized text changes nothing, and a normalized text
\* is made of runs of a-z and 0-9 separated by single blanks, with no blank
\* at either end.
C17_NormalizeIdempotent ==
  call.fn = "normalizeText" =>
    LET out == call.normalized
    IN  /\ call.renormalized = out
        /\ \A i \in 1..Len(out) : Char(out, i) \in LowerAlnum \cup {" "}
        /\ \A i \in 1..(Len(out) - 1) : ~(Char(out, i) = " " /\ Char(out, i + 1) = " ")
        /\ Len(out) > 0 => (Char(out, 1) # " " /\ Char(out, Len(out)) # " ")

\* a text of an upper-case accented letter, a separator and a digit,
\* normalized to two tokens
C17_Witness ==
  /\ call.fn = "normalizeText"
  /\ Len(call.text) = 3
  /\ Char(call.text, 1) = "É"
  /\ Char(call.text, 2) \in {"-", "\n"}
  /\ call.normalized = "e 7"

\* C18: the distance from a to b is the distance from b to a.
C18_LevenshteinSymmetric ==
  call.fn = "levenshtein" => call.ab = call.ba

\* two tokens of different lengths, neither empty nor a prefix of the other
C18_Witness ==
  /\ call.fn = "levenshtein"
  /\ Len(call.a) > Len(call.b) /\ Len(call.b) > 0
  /\ SubSeq(call.a, 1, Len(call.b)) # call.b
  /\ call.ab > Len(call.a) - Len(call.b)

RECURSIVE EditDistance(_, _)
\* the edit distance by its definition: the least number of insertions,
\* deletions and substitutions of one character turning a into b
EditDistance(a, b) ==
  IF Len(a) = 0 THEN Len(b)
  ELSE IF Len(b) = 0 THEN Len(a)
  ELSE Min2(EditDistance(Tail(a), Tail(b)) + (IF Head(a) = Head(b) THEN 0 ELSE 1),
            Min2(EditDistance(Tail(a), b) + 1, EditDistance(a, Tail(b)) + 1))

\* C19: levenshtein(a, b) is the edit distance of a and b with insertion,
\* deletion and substitution at cost 1 each, so 0 for equal tokens and the
\* length of a when b is empty; the earlier App's levenshtein gives the same
\* value.
C19_LevenshteinStandard ==
  call.fn = "levenshtein" =>
    /\ call.ab = EditDistance(call.a, call.b)
    /\ call.a = call.b => call.ab = 0
    /\ call.b = "" => call.ab = Len(call.a)
    /\ call.part001 = call.ab

\* two tokens of full length whose distance needs a substitution and is
\* less than their length
C19_Witness ==
  /\ call.fn = "levenshtein"
  /\ Len(call.a) = MaxTokenLen /\ Len(call.b) = Len(call.a)
  /\ Head(call.a) # Head(call.b)
  /\ call.ab = 2
  /\ call.part001 = 2

\* no synonym of the query's first token occurs anywhere in the normalized
\* title
NoAnchorInTitle(queryTokens, title) ==
  \A syn \in SynonymsOfPart001(queryTokens[1]) : ~Includes(normalizeText(title), syn)

\* C20: under the stricter policy a query of two or more tokens scores -1
\* against a title in which no synonym of its first token occurs, and that
\* title is not among the query's candidates, whatever else it contains.
C20_StrictAnchor ==
  call.fn = "calculateMatchScore" =>
    LET queryTokens == NonEmpty(SplitSpace(normalizeText(call.query)))
    IN  \A n \in 1..Len(call.rows) :
           (Len(queryTokens) >= 2 /\ NoAnchorInTitle(queryTokens, call.rows[n].title))
           => /\ call.scores[n] = -1
              /\ \A k \in 1..Len(call.matches) : call.matches[k].id # n - 1

\* a two-token query against a title that holds its second token but not
\* its anchor, in a catalog whose other row is a candidate
C20_Witness ==
  /\ call.fn = "calculateMatchScore"
  /\ call.query = "Pinça Mayo"
  /\ Len(call.rows) = 2
  /\ call.rows[1].title = "Tesoura Mayo"
  /\ call.scores[1] = -1
  /\ Len(call.matches) = 1
  /\ call.matches[1].id = 1

\* a query token the completeness gate skips: a stop word, or a number of
\* fewer than 3 characters
SkippedByGate(token) ==
  token \in STOP_WORDS \/ (Len(token) < 3 /\ AllIn(token, Digits))

RECURSIVE WeightedSum(_, _, _)
\* the sum over the query tokens of bestTokenScore * tokenWeight
WeightedSum(queryTokens, best, i) ==
  IF i > Len(queryTokens) THEN 0
  ELSE (best[i] * TokenWeight(queryTokens[i])) \div 10 + WeightedSum(queryTokens, best, i + 1)

\* C21: the score holds the completeness bonus of 6000 exactly when every
\* query token that is neither a stop word nor a number of fewer than 3
\* characters has a thesaurus synonym occurring in the normalized title; a
\* query of stop words and short numbers only gets it on every item.
C21_CompletenessBonus ==
  call.fn = "App.calculateMatchScore" =>
    LET queryTokens == QueryTokens(call.query)
    IN  \A n \in 1..Len(call.rows) :
           LET st    == call.steps[n]
               title == normalizeText(call.rows[n].title)
               complete ==
                 \A i \in 1..Len(queryTokens) :
                    ~SkippedByGate(queryTokens[i]) =>
                      \E syn \in SynonymsOf(queryTokens[i]) : Includes(title, syn)
           IN  /\ st.bonus = (IF complete THEN 6000 ELSE 0)
               /\ st.total = st.bonus + WeightedSum(queryTokens, st.best, 1)
                               + st.anchor - st.penalty
               /\ (\A i \in 1..Len(queryTokens) : SkippedByGate(queryTokens[i]))
                    => st.bonus = 6000

\* a query of a stop word and a thesaurus key against a title that holds
\* the key inside a longer word, next to a title that does not
C21_Witness ==
  /\ call.fn = "App.calculateMatchScore"
  /\ call.query = "conjunto fio"
  /\ Len(call.rows) = 2
  /\ call.rows[1].title = "Conjuntos Fios Caixa"
  /\ call.steps[1].bonus = 6000
  /\ call.steps[2].bonus = 0

\* the weight class of a query token is "category" or "specific name"
IsCategoryOrName(token) ==
  token \notin STOP_WORDS /\ (token \in CATEGORY_TERMS \/ ~IsNumber(token))

\* the edit distances from a query token to the title tokens that are
\* within the token's threshold
CloseDistances(token, productTokens) ==
  {d \in {levenshtein(token, productTokens[k]) : k \in 1..Len(productTokens)} :
     d <= (IF Len(token) > 6 THEN 2 ELSE 1)}

\* C22: the best match quality of a query token (in tenths) is within 0..10
\* and is 10 when a synonym equals a title token; else 9 if the token is a
\* category term or a specific name, is longer than 3 characters and is a
\* prefix of a title token; else 10 - 2d if the token is no stop word, has
\* at least 4 characters and is at distance d from a title token, d within
\* 1 (2 for a token longer than 6); else 0.  A stop word and a token of at
\* most 3 characters match exactly or not at all.
C22_TokenQuality ==
  call.fn = "App.calculateMatchScore" =>
    LET queryTokens == QueryTokens(call.query)
    IN  \A n \in 1..Len(call.rows) :
           \A i \in 1..Len(queryTokens) :
              LET token == queryTokens[i]
                  productTokens == ProductTokens(call.rows[n].title)
                  best == call.steps[n].best[i]
                  exact == \E k \in 1..Len(productTokens) :
                              productTokens[k] \in SynonymsOf(token)
                  prefix == /\ IsCategoryOrName(token) /\ Len(token) > 3
                            /\ \E k \in 1..Len(productTokens) :
                                  StartsWith(productTokens[k], token)
                  close == IF token \notin STOP_WORDS /\ Len(token) >= 4
                           THEN CloseDistances(token, productTokens) ELSE {}
              IN  /\ best \in 0..10
                  /\ best = (IF exact THEN 10
                             ELSE IF prefix THEN 9
                             ELSE IF close # {}
                                  THEN 10 - 2 * (CHOOSE d \in close : \A e \in close : d <= e)
                             ELSE 0)
                  /\ (token \in STOP_WORDS \/ Len(token) <= 3) => best \in {0, 10}

\* a name matched by prefix and a number matched at distance 1 in one row
C22_Witness ==
  /\ call.fn = "App.calculateMatchScore"
  /\ call.query = "volk 1000"
  /\ \E n \in 1..Len(call.rows) :
        /\ call.rows[n].title = "Volkmann 1001"
        /\ call.steps[n].best = <<9, 8>>

AccessoryWords == {"cabo", "suporte"}

\* C23: 3000 is subtracted from the score exactly when a token of the
\* normalized title is an accessory word and no synonym of the query's first
\* token is one; so for a query of one token X that asks for no accessory,
\* the title 'X' scores above the titles 'cabo X' and 'suporte X'.
C23_AccessoryPenalty ==
  call.fn = "App.calculateMatchScore" =>
    LET queryTokens == QueryTokens(call.query)
        accessoryQuery == SynonymsOf(queryTokens[1]) \cap AccessoryWords # {}
    IN  /\ \A n \in 1..Len(call.rows) :
              LET st == call.steps[n]
                  productTokens == ProductTokens(call.rows[n].title)
                  accessoryTitle ==
                    \E k \in 1..Len(productTokens) : productTokens[k] \in AccessoryWords
              IN  /\ st.penalty = (IF accessoryTitle /\ ~accessoryQuery THEN 3000 ELSE 0)
                  /\ st.total = st.bonus + WeightedSum(queryTokens, st.best, 1)
                                  + st.anchor - st.penalty
        /\ (Len(queryTokens) = 1 /\ ~accessoryQuery) =>
              \A m, n \in 1..Len(call.rows) :
                 ( /\ ProductTokens(call.rows[m].title) = queryTokens
                   /\ \E word \in AccessoryWords :
                         ProductTokens(call.rows[n].title) = <<word>> \o queryTokens )
                 => call.steps[m].total > call.steps[n].total

\* the query 'Bisturi' against the plain title and the handle's title
C23_Witness ==
  /\ call.fn = "App.calculateMatchScore"
  /\ call.query = "Bisturi"
  /\ Len(call.rows) = 2
  /\ call.rows[1].title = "Cabo Bisturi" /\ call.rows[2].title = "Bisturi"
  /\ call.steps[1].penalty = 3000 /\ call.steps[2].penalty = 0
  /\ call.steps[2].total > call.steps[1].total

\* a query token matches a title token: a synonym equals it, is a prefix of
\* it, or is within the widest edit distance the scorer accepts
TokenMatchesTitle(qToken, productTokens) ==
  \E synonym \in SynonymsOf(qToken) : \E k \in 1..Len(productTokens) :
     \/ synonym = productTokens[k]
     \/ StartsWith(productTokens[k], synonym)
     \/ levenshtein(synonym, productTokens[k]) <= 2

\* C24: every candidate the ranking returns has a query token that matches
\* one of its title tokens, whatever the query.
C24_CandidateMatchesToken ==
  call.fn = "App.calculateMatchScore" =>
    \A n \in 1..Len(call.matches) :
       \E i \in 1..Len(QueryTokens(call.query)) :
          TokenMatchesTitle(QueryTokens(call.query)[i],
                            ProductTokens(call.matches[n].title))

CandidateIds(idx) ==
  {bulkResults[idx + 1].products[k].id : k \in 1..Len(bulkResults[idx + 1].products)}

\* C25: once a search has published its results, every entry of
\* quotationState is for a line index of bulkResults and for an id of that
\* line's unfiltered candidates, overrides made while the extraction was in
\* flight included.
C25_SelectionRefersToResults ==
  ~isSearching =>
    \A idx \in DOMAIN quotationState :
       /\ idx \in LineIndexes(bulkResults)
       /\ DOMAIN quotationState[idx] \subseteq CandidateIds(idx)

\* handleSearch's continuation runs once the promise of extractShoppingItems
\* settles, and that promise always resolves: the remote call's rejection is
\* caught and answered by the fallback (src/services/geminiService.ts:82-85)
SpecSearchSettles == Init /\ [][Next]_vars /\ WF_vars(handleSearchFinish)

\* C26: a started search eventually finishes, whether the extraction
\* answers, falls back or the ranking throws; a call of handleSearch during
\* a search or with a blank input changes nothing, and nothing replaces the
\* search in flight before it finishes.
C26_SearchTerminates ==
  /\ isSearching ~> ~isSearching
  /\ [][ /\ (handleSearchStart /\ (isSearching \/ Trim(queryInput) = ""))
            => UNCHANGED vars
         /\ isSearching => pendingInput' = pendingInput
         /\ (isSearching /\ isSearching') => UNCHANGED <<bulkResults, toastStats>>
         /\ SearchThrows => UNCHANGED <<bulkResults, toastStats>> ]_vars

\* a search on a catalog with the item 'Luva' has finished in the catch block:
\* the second term's ranking threw after the first term's default selection
\* was queued, and nothing was published
C26_Witness ==
  /\ ~isSearching
  /\ pendingInput # ""
  /\ bulkResults = <<>>
  /\ quotationState # EmptyMap

\* the class a status label stands for, on screen and in the export
StatusClass(label) ==
  IF label = "Exato" THEN "Exact"
  ELSE IF label = "Similar" THEN "Similar" ELSE "NotFound"

\* C27: in every reachable state the status cell of every line and the
\* Status column the export writes for it name the same class, under any
\* supplier filter.
C27_TableAndExportAgree ==
  \A idx \in LineIndexes(bulkResults) :
     StatusClass(StatusCell(idx)) = StatusClass(CsvStatus(idx))

\* C28: with positive integer quantities from the extraction, the quantity
\* every line resolves is an integer of at least 1 in every reachable state,
\* under any supplier filter, and so is every stored quantity.
C28_QuantityPositive ==
  /\ \A idx \in LineIndexes(bulkResults) :
        /\ bulkResults[idx + 1].detectedQuantity \in Nat \ {0}
        /\ ActiveQty(idx) \in Nat \ {0}
  /\ \A idx \in DOMAIN quotationState :
        \A id \in DOMAIN quotationState[idx] : quotationState[idx][id] \in Nat \ {0}

\* two lines: one without candidates resolving the requested quantity, one
\* whose stored quantity is no longer the requested one
C28_Witness ==
  /\ ~isSearching
  /\ \E idx \in LineIndexes(bulkResults) :
        /\ Len(bulkResults[idx + 1].products) = 0
        /\ ActiveQty(idx) = bulkResults[idx + 1].detectedQuantity
  /\ \E idx \in LineIndexes(bulkResults) :
        /\ SelectedIds(idx) # {}
        /\ ActiveQty(idx) # bulkResults[idx + 1].detectedQuantity

FilterChanges == selectedSupplierFilter' # selectedSupplierFilter

\* the rows resolve the selections as no filter shows them
RowsShowUnfiltered ==
  \A idx \in LineIndexes(bulkResults) :
     /\ ActiveProduct(idx) = EffectiveItem(idx)
     /\ ActiveQty(idx) = EffectiveQuantity(idx)

\* C29: a change of the supplier filter leaves bulkResults and
\* quotationState as they are; the grand total under a supplier is at most
\* the grand total under 'all suppliers' (no price is negative); and going
\* to a supplier and back to 'all suppliers' restores the rows' products and
\* quantities, which are those of the unfiltered selections, and the total.
C29_FilterFrame ==
  [][ /\ selectedSupplierFilter = AllSuppliers => RowsShowUnfiltered
      /\ FilterChanges =>
            /\ UNCHANGED <<bulkResults, quotationState>>
            /\ selectedSupplierFilter = AllSuppliers => grandTotal' <= grandTotal
            /\ selectedSupplierFilter' = AllSuppliers =>
                  /\ grandTotal' >= grandTotal
                  /\ RowsShowUnfiltered' ]_vars

\* a search has completed and none is in flight
SearchHasCompleted == ~isSearching /\ pendingInput # ""

\* C30: ticking a candidate of a line makes it the line's only selection,
\* with the line's requested quantity, and leaves the other lines' entries
\* alone; and from the completion of a search to the start of the next, every
\* line with a candidate has exactly one selection entry.
C30_SelectionKept ==
  [][ /\ \A tIdx \in LineIndexes(bulkResults) :
            \A k \in 1..Len(filteredResults[tIdx + 1].products) :
               LET pId == filteredResults[tIdx + 1].products[k].id
               IN  ToggleSelect(tIdx, pId) =>
                     /\ quotationState'[tIdx] = (pId :> bulkResults[tIdx + 1].detectedQuantity)
                     /\ \A idx \in (DOMAIN quotationState \cup DOMAIN quotationState') \ {tIdx} :
                           /\ idx \in DOMAIN quotationState \cap DOMAIN quotationState'
                           /\ quotationState'[idx] = quotationState[idx]
      /\ SearchHasCompleted' =>
            \A idx \in LineIndexes(bulkResults') :
               Len(bulkResults'[idx + 1].products) > 0
                 => Cardinality(SelectedIds(idx)') = 1 ]_vars
=============================================================================
